---- MODULE Spec2Model ----
(***************************************************************************)
(* Model of lsst::daf::persistence::FormatterRegistry                      *)
(* (src/src/FormatterRegistry.cc).                                         *)
(*                                                                         *)
(* The registry is a leaked function-scoped static singleton that owns two *)
(* associative containers: _byName (logical name -> factory) and           *)
(* _nameForType (type_info::name() -> logical name).  Threads obtain the   *)
(* singleton through getInstance() and then register factories and look    *)
(* formatters up through the reference they hold.                          *)
(*                                                                         *)
(* The maps carry no lock.  A map operation concurrent with an insertion   *)
(* is a data race, so the embedding application has to order them; the     *)
(* model lets a thread start a map operation only while no other thread is *)
(* between the two insertions of registerFormatter.  getInstance() itself  *)
(* is fully concurrent.                                                    *)
(***************************************************************************)
EXTENDS Naturals, Sequences, FiniteSets, TLC

(* ---- bounds ---- *)
NumThreads == 2
NumNames == 2
NumTypes == 2
NumFactories == 2
MaxRegs == 3

AllNames == <<"Foo", "Dup", "Bar", "Baz">>
AllTypes == <<"3Foo", "3Dup", "3Bar", "3Baz">>
AllFactories == <<"F1", "F2", "F3", "F4">>

Threads == 1..NumThreads
Names == {AllNames[i] : i \in 1..NumNames}
Types == {AllTypes[i] : i \in 1..NumTypes}
Factories == {AllFactories[i] : i \in 1..NumFactories}

VARIABLES
    guard,      \* initialisation guard of the function-scoped static
    registry,   \* the static pointer `registry': 0 = not yet set, else instance id
    heap,       \* heap[i] = the FormatterRegistry object with id i
    alive,      \* ids of the FormatterRegistry objects not destroyed
    exited,     \* static destruction at process exit has run
    pc,         \* pc[t]: where thread t is
    ref,        \* ref[t]: the instance the last getInstance() of t returned (0 = none)
    arg,        \* arg[t]: arguments of the registerFormatter call t is in
    log,        \* history: the triples passed to registerFormatter, in call order
    last        \* the lookupFormatter call that has not yet returned to its
                \* caller, with its outcome

vars == <<guard, registry, heap, alive, exited, pc, ref, arg, log, last>>

(* ---- the maps ---- *)

EmptyMap == [k \in {} |-> ""]

\* std::map::find(k) != end()
MapHas(m, k) == k \in DOMAIN m

\* insert(value_type(k, v)) on the registry's containers.  The container
\* types are declared in FormatterRegistry.h; names are unique keys and a
\* probe resolves to the first entry registered for a key, so an insertion
\* under a key that is present leaves the entry found for that key alone.
MapInsert(m, k, v) ==
    IF k \in DOMAIN m THEN m ELSE [x \in DOMAIN m \cup {k} |-> IF x = k THEN v ELSE m[x]]

\* m[k] = v: the overwriting store that insert() is not
MapAssign(m, k, v) == [x \in DOMAIN m \cup {k} |-> IF x = k THEN v ELSE m[x]]

\* a FormatterRegistry as constructed: both maps empty
FormatterRegistry == [_byName |-> EmptyMap, _nameForType |-> EmptyMap]

(* ---- policies ---- *)

NullPolicy == [null |-> TRUE, keys |-> {}]
Policies == {NullPolicy} \cup {[null |-> FALSE, keys |-> K] : K \in SUBSET Names}

\* Policy::exists(key)
exists(policy, key) == key \in policy.keys

\* what a factory receives: nothing, or the sub-tree `key' of `policy'
NullSubPolicy == [null |-> TRUE, of |-> {}, key |-> ""]
\* Policy::getPolicy(key)
getPolicy(policy, key) == [null |-> FALSE, of |-> policy.keys, key |-> key]

(* ---- outcomes of a lookup ---- *)

TypeMsg == "No Formatter registered for Persistable type: "
NameMsg == "No Formatter registered for Persistable name: "

\* (*(it->second))(formatterPolicy)
Invoke(factory, formatterPolicy) ==
    [kind |-> "Formatter", factory |-> factory, formatterPolicy |-> formatterPolicy,
     what |-> <<>>]

\* throw lsst::pex::exceptions::InvalidParameter(msg + subject)
InvalidParameter(msg, subject) ==
    [kind |-> "InvalidParameter", factory |-> "", formatterPolicy |-> NullSubPolicy,
     what |-> <<msg, subject>>]

lookupFormatterByName_Whole(r, persistableName, policy) ==
    IF ~MapHas(r._byName, persistableName)
    THEN InvalidParameter(NameMsg, persistableName)
    ELSE Invoke(r._byName[persistableName],
                IF policy.null THEN NullSubPolicy
                ELSE [null |-> FALSE, of |-> policy.keys, key |-> ""])

lookupFormatterByName_NoThrow(r, persistableName, policy) ==
    LET formatterPolicy ==
            IF ~policy.null /\ exists(policy, persistableName)
            THEN getPolicy(policy, persistableName) ELSE NullSubPolicy
    IN Invoke(IF MapHas(r._byName, persistableName)
              THEN r._byName[persistableName] ELSE "", formatterPolicy)

\* lookupFormatter(std::string const&, Policy::Ptr)
lookupFormatterByName(r, persistableName, policy) ==
    IF ~MapHas(r._byName, persistableName)
    THEN InvalidParameter(NameMsg, persistableName)
    ELSE LET formatterPolicy ==
                 IF ~policy.null /\ exists(policy, persistableName)
                 THEN getPolicy(policy, persistableName) ELSE NullSubPolicy
         IN Invoke(r._byName[persistableName], formatterPolicy)

lookupFormatterByType_NoCheck(r, persistableType, policy) ==
    lookupFormatterByName(r,
        IF MapHas(r._nameForType, persistableType)
        THEN r._nameForType[persistableType] ELSE persistableType, policy)

lookupFormatterByType_NameMsg(r, persistableType, policy) ==
    IF ~MapHas(r._nameForType, persistableType)
    THEN InvalidParameter(NameMsg, persistableType)
    ELSE lookupFormatterByName(r, r._nameForType[persistableType], policy)

\* lookupFormatter(std::type_info const&, Policy::Ptr)
lookupFormatterByType(r, persistableType, policy) ==
    IF ~MapHas(r._nameForType, persistableType)
    THEN InvalidParameter(TypeMsg, persistableType)
    ELSE lookupFormatterByName(r, r._nameForType[persistableType], policy)

(* ---- registerFormatter, one insertion at a time ---- *)

InsertByName_Assign(r, a) ==
    [r EXCEPT !._byName = MapAssign(r._byName, a.name, a.factory)]

InsertByName_TypeFirst(r, a) ==
    [r EXCEPT !._nameForType = MapInsert(r._nameForType, a.type, a.name)]

\* _byName.insert(FactoryMap::value_type(persistableName, factory))
InsertByName(r, a) ==
    [r EXCEPT !._byName = MapInsert(r._byName, a.name, a.factory)]

InsertNameForType_Assign(r, a) ==
    [r EXCEPT !._nameForType = MapAssign(r._nameForType, a.type, a.name)]

InsertNameForType_NameKey(r, a) ==
    [r EXCEPT !._nameForType = MapInsert(r._nameForType, a.name, a.name)]

\* _nameForType.insert(StringMap::value_type(persistableType.name(), persistableName))
InsertNameForType(r, a) ==
    [r EXCEPT !._nameForType = MapInsert(r._nameForType, a.type, a.name)]

(* ---- state ---- *)

NoArg == [name |-> "", type |-> "", factory |-> ""]
NoLookup == [by |-> "none", key |-> "", policy |-> NullPolicy, inst |-> 0,
             outcome |-> InvalidParameter("", "")]

Init ==
    /\ guard = "uninit"
    /\ registry = 0
    /\ heap = <<>>
    /\ alive = {}
    /\ exited = FALSE
    /\ pc = [t \in Threads |-> "idle"]
    /\ ref = [t \in Threads |-> 0]
    /\ arg = [t \in Threads |-> NoArg]
    /\ log = <<>>
    /\ last = NoLookup

\* some thread is between the two insertions of registerFormatter
Registering == \E t \in Threads : pc[t] = "registering"

\* no registration is in progress and no lookup is outstanding
Quiescent == ~Registering /\ last.by = "none"

\* Names, type identities and factories are opaque to the registry: it
\* stores and compares them and does nothing else with them.  A registration
\* therefore takes each of them from those already passed or takes the next
\* unused one of AllNames, AllTypes, AllFactories; lookups probe every name
\* and type identity, registered or not.
UsedNames == {log[i].name : i \in 1..Len(log)}
UsedTypes == {log[i].type : i \in 1..Len(log)}
UsedFactories == {log[i].factory : i \in 1..Len(log)}
Fresh(all, used, max) ==
    IF Cardinality(used) < max THEN {all[Cardinality(used) + 1]} ELSE {}

(* ---- getInstance ---- *)

GetInstanceEnter_NoGuard(t) ==
    /\ pc[t] = "idle"
    /\ IF guard = "done"
       THEN /\ ref' = [ref EXCEPT ![t] = registry]
            /\ UNCHANGED <<guard, pc>>
       ELSE /\ pc' = [pc EXCEPT ![t] = "constructing"]
            /\ UNCHANGED <<guard, ref>>
    /\ UNCHANGED <<registry, heap, alive, exited, arg, log, last>>

\* getInstance(): control reaches the declaration of the static.  The first
\* thread through takes the guard; one that arrives while the initialisation
\* runs waits; afterwards the function returns *registry.
GetInstanceEnter(t) ==
    /\ pc[t] = "idle"
    /\ guard # "initializing"
    /\ IF guard = "done"
       THEN /\ ref' = [ref EXCEPT ![t] = registry]
            /\ UNCHANGED <<guard, pc>>
       ELSE /\ guard' = "initializing"
            /\ pc' = [pc EXCEPT ![t] = "constructing"]
            /\ UNCHANGED ref
    /\ UNCHANGED <<registry, heap, alive, exited, arg, log, last>>

\* the initialiser `new FormatterRegistry' runs, the static is set, the
\* guard is released and getInstance() returns the new object
GetInstanceInit(t) ==
    /\ pc[t] = "constructing"
    /\ heap' = Append(heap, FormatterRegistry)
    /\ alive' = alive \cup {Len(heap) + 1}
    /\ registry' = Len(heap) + 1
    /\ guard' = "done"
    /\ ref' = [ref EXCEPT ![t] = Len(heap) + 1]
    /\ pc' = [pc EXCEPT ![t] = "idle"]
    /\ UNCHANGED <<exited, arg, log, last>>

\* process exit destroys the objects of static storage duration: the static
\* is a pointer, so the FormatterRegistry it points to is left alone
Exit ==
    /\ ~exited
    /\ exited' = TRUE
    /\ UNCHANGED <<guard, registry, heap, alive, pc, ref, arg, log, last>>

(* ---- registerFormatter ---- *)

\* registerFormatter is called and performs its first insertion
RegisterByName(t) ==
    /\ pc[t] = "idle"
    /\ ref[t] # 0
    /\ Quiescent
    /\ Len(log) < MaxRegs
    /\ \E n \in UsedNames \cup Fresh(AllNames, UsedNames, NumNames),
          ty \in UsedTypes \cup Fresh(AllTypes, UsedTypes, NumTypes),
          f \in UsedFactories \cup Fresh(AllFactories, UsedFactories, NumFactories) :
          LET a == [name |-> n, type |-> ty, factory |-> f] IN
          /\ heap' = [heap EXCEPT ![ref[t]] = InsertByName(@, a)]
          /\ arg' = [arg EXCEPT ![t] = a]
          /\ log' = Append(log, a)
    /\ pc' = [pc EXCEPT ![t] = "registering"]
    /\ UNCHANGED <<guard, registry, alive, exited, ref, last>>

\* the second insertion, and the return
RegisterNameForType(t) ==
    /\ pc[t] = "registering"
    /\ heap' = [heap EXCEPT ![ref[t]] = InsertNameForType(@, arg[t])]
    /\ arg' = [arg EXCEPT ![t] = NoArg]
    /\ pc' = [pc EXCEPT ![t] = "idle"]
    /\ UNCHANGED <<guard, registry, alive, exited, ref, log, last>>

(* ---- lookupFormatter ---- *)

LookupByType(t) ==
    /\ pc[t] = "idle"
    /\ ref[t] # 0
    /\ Quiescent
    /\ \E ty \in Types, p \in Policies :
          last' = [by |-> "type", key |-> ty, policy |-> p,
                   inst |-> ref[t],
                   outcome |-> lookupFormatterByType(heap[ref[t]], ty, p)]
    /\ UNCHANGED <<guard, registry, heap, alive, exited, pc, ref, arg, log>>

LookupByName_Inserting(t) ==
    /\ pc[t] = "idle"
    /\ ref[t] # 0
    /\ Quiescent
    /\ \E n \in Names, p \in Policies :
          /\ last' = [by |-> "name", key |-> n, policy |-> p,
                      inst |-> ref[t],
                      outcome |-> lookupFormatterByName(heap[ref[t]], n, p)]
          /\ heap' = [heap EXCEPT ![ref[t]]._byName = MapInsert(@, n, "")]
    /\ UNCHANGED <<guard, registry, alive, exited, pc, ref, arg, log>>

LookupByName(t) ==
    /\ pc[t] = "idle"
    /\ ref[t] # 0
    /\ Quiescent
    /\ \E n \in Names, p \in Policies :
          last' = [by |-> "name", key |-> n, policy |-> p,
                   inst |-> ref[t],
                   outcome |-> lookupFormatterByName(heap[ref[t]], n, p)]
    /\ UNCHANGED <<guard, registry, heap, alive, exited, pc, ref, arg, log>>

\* the outstanding lookup returns to its caller, which takes the Formatter
\* or the exception
Return ==
    /\ last.by # "none"
    /\ last' = NoLookup
    /\ UNCHANGED <<guard, registry, heap, alive, exited, pc, ref, arg, log>>

Next ==
    \/ \E t \in Threads : GetInstanceEnter(t)
    \/ \E t \in Threads : GetInstanceInit(t)
    \/ \E t \in Threads : RegisterByName(t)
    \/ \E t \in Threads : RegisterNameForType(t)
    \/ \E t \in Threads : LookupByType(t)
    \/ \E t \in Threads : LookupByName(t)
    \/ Return
    \/ Exit

Spec == Init /\ [][Next]_vars

TypeOK ==
    /\ guard \in {"uninit", "initializing", "done"}
    /\ registry \in 0..Len(heap)
    /\ Len(log) <= MaxRegs

(* ---- history helpers ---- *)

\* the registerFormatter calls made before the lookup recorded in `last':
\* no registration starts while the lookup is outstanding
Before == 1..Len(log)

\* index of the first registerFormatter call that used name n / type ty
FirstByName(n) == CHOOSE i \in 1..Len(log) :
    log[i].name = n /\ \A j \in 1..(i - 1) : log[j].name # n
FirstByType(ty) == CHOOSE i \in 1..Len(log) :
    log[i].type = ty /\ \A j \in 1..(i - 1) : log[j].type # ty

IsFirstOfName(i) == \A j \in 1..(i - 1) : log[j].name # log[i].name
IsFirstOfType(i) == \A j \in 1..(i - 1) : log[j].type # log[i].type

\* the lookup recorded in `last' was started with triple i's name / type
ProbesNameOf(i) == last.by = "name" /\ last.key = log[i].name
ProbesTypeOf(i) == last.by = "type" /\ last.key = log[i].type

Succeeded == last.by # "none" /\ last.outcome.kind = "Formatter"
Failed == last.by # "none" /\ last.outcome.kind # "Formatter"

\* the sub-tree of the policy supplied to the lookup that is keyed n, if any
SubTreeFor(n) ==
    IF ~last.policy.null /\ n \in last.policy.keys
    THEN [null |-> FALSE, of |-> last.policy.keys, key |-> n]
    ELSE NullSubPolicy

(* ---- claims ---- *)

\* C1 (as stated): every triple passed to registerFormatter round-trips: a
\* later lookup by its name and a later lookup by its type identity both
\* succeed and invoke that triple's factory.
C1_RoundTripEveryTriple ==
    \A i \in Before :
        (ProbesNameOf(i) \/ ProbesTypeOf(i)) =>
            Succeeded /\ last.outcome.factory = log[i].factory

\* C1 (amended): a later lookup by the name or by the type identity of any
\* registered triple succeeds; lookup by name invokes the triple's factory
\* when no earlier registration used its name, and lookup by type identity
\* invokes it when no earlier registration used its name or its type identity.
C1_RoundTripFirstRegistration ==
    \A i \in Before :
        /\ (ProbesNameOf(i) \/ ProbesTypeOf(i)) => Succeeded
        /\ (ProbesNameOf(i) /\ IsFirstOfName(i)) =>
               last.outcome.factory = log[i].factory
        /\ (ProbesTypeOf(i) /\ IsFirstOfName(i) /\ IsFirstOfType(i)) =>
               last.outcome.factory = log[i].factory

C1_Witness ==
    /\ Len(log) >= 2
    /\ \E i \in Before :
          /\ i >= 2
          /\ ProbesTypeOf(i) /\ IsFirstOfName(i) /\ IsFirstOfType(i)
          /\ Succeeded /\ last.outcome.factory = log[i].factory
          /\ log[1].factory # log[i].factory

\* C2: lookup by a type identity that was never passed to registerFormatter
\* fails with the unknown-type error (the InvalidParameter thrown for a
\* missing type) and invokes no factory, whatever else was registered.
C2_UnknownTypeFails ==
    (last.by = "type" /\ \A i \in Before : log[i].type # last.key) =>
        last.outcome = InvalidParameter(TypeMsg, last.key)

C2_Witness ==
    /\ last.by = "type" /\ Len(log) >= 2
    /\ \A i \in Before : log[i].type # last.key
    /\ last.outcome.what = <<TypeMsg, last.key>>

\* C3: lookup by a name that was never passed to registerFormatter fails
\* with the unknown-formatter error (the InvalidParameter thrown for a
\* missing name) and invokes no factory, whether or not the supplied policy
\* has a sub-tree keyed by that name.
C3_UnknownNameFails ==
    (last.by = "name" /\ \A i \in Before : log[i].name # last.key) =>
        last.outcome = InvalidParameter(NameMsg, last.key)

C3_Witness ==
    /\ last.by = "name" /\ Len(log) >= 2
    /\ \A i \in Before : log[i].name # last.key
    /\ ~last.policy.null /\ last.key \in last.policy.keys
    /\ last.outcome.what = <<NameMsg, last.key>>

\* C4: in every reachable state, also between the two insertions of one
\* registerFormatter call, every name held as a value of _nameForType is a
\* key of _byName; a lookup by type identity never ends in the
\* unknown-formatter error.
C4_TypeNamesHaveFactories ==
    /\ \A r \in 1..Len(heap) :
          \A ty \in DOMAIN heap[r]._nameForType :
              heap[r]._nameForType[ty] \in DOMAIN heap[r]._byName
    /\ (last.by = "type" /\ Failed) => last.outcome.what[1] # NameMsg

C4_Witness ==
    \E t \in Threads :
        /\ pc[t] = "registering"
        /\ arg[t].type \notin DOMAIN heap[ref[t]]._nameForType
        /\ arg[t].name \in DOMAIN heap[ref[t]]._byName
        /\ DOMAIN heap[ref[t]]._nameForType # {}

\* C5: a successful lookup invokes the factory with the sub-tree of the
\* supplied policy keyed by the logical name when the policy is present and
\* has that key, and with a null policy otherwise; the key is the logical
\* name also when the lookup was started by type identity.
C5_ConfigPassThrough ==
    /\ (last.by = "name" /\ Succeeded) =>
           last.outcome.formatterPolicy = SubTreeFor(last.key)
    /\ (last.by = "type" /\ Succeeded) =>
           last.outcome.formatterPolicy =
               SubTreeFor(log[FirstByType(last.key)].name)

C5_Witness ==
    /\ last.by = "type" /\ Succeeded
    /\ ~last.outcome.formatterPolicy.null
    /\ last.outcome.formatterPolicy.key = log[FirstByType(last.key)].name
    /\ last.outcome.formatterPolicy.of = last.policy.keys
    /\ Cardinality(last.policy.keys) >= 2

\* C6: once two distinct factories have been registered under one name,
\* every later lookup by that name invokes the first-registered one and
\* never the later one, whatever other registrations are interleaved.
C6_FirstMatchWins ==
    \A i \in Before : \A j \in Before :
        (i < j /\ log[i].name = log[j].name /\ IsFirstOfName(i)
           /\ log[i].factory # log[j].factory /\ ProbesNameOf(i)) =>
            /\ Succeeded
            /\ last.outcome.factory = log[i].factory
            /\ last.outcome.factory # log[j].factory

C6_Witness ==
    /\ Len(log) >= 3
    /\ log[1].name = log[3].name /\ log[2].name # log[1].name
    /\ log[1].factory # log[3].factory
    /\ ProbesNameOf(1) /\ Succeeded
    /\ last.outcome.factory = log[1].factory

\* C7: the registry is constructed on the first getInstance call and at most
\* one instance ever exists; every getInstance call, in any interleaving of
\* the threads, returns that instance, so every holder reads and writes the
\* same maps; the instance is never destroyed, not even at process exit.
C7_SingletonIdentity ==
    /\ Len(heap) <= 1
    /\ (guard = "uninit") => (heap = <<>> /\ registry = 0)
    /\ (guard = "done") => (registry = 1 /\ Len(heap) = 1)
    /\ \A t \in Threads : ref[t] # 0 => ref[t] = registry
    /\ \A t \in Threads : pc[t] = "registering" => ref[t] = registry
    /\ last.by # "none" => last.inst = registry
    /\ alive = 1..Len(heap)

C7_Witness ==
    /\ exited
    /\ \A t \in Threads : ref[t] = registry /\ registry # 0
    /\ registry \in alive
    /\ Len(log) >= 1
    /\ Succeeded

\* C8 (as stated): the error of a failed type probe is of a different kind
\* than the error of a failed name probe: when a lookup by name has failed,
\* the error a lookup by an unregistered type identity produces in the same
\* state is of another kind.
C8_ErrorKindsDiffer ==
    (last.by = "name" /\ Failed) =>
        \A ty \in Types :
            ~MapHas(heap[last.inst]._nameForType, ty) =>
                lookupFormatterByType(heap[last.inst], ty, last.policy).kind
                    # last.outcome.kind

\* C8 (amended): both lookup failures are errors of the one kind
\* InvalidParameter; they differ in the message only, which names the type
\* identity for a failed type probe and the logical name for a failed name
\* probe.
C8_ErrorsDifferByMessage ==
    Failed =>
        /\ last.outcome.kind = "InvalidParameter"
        /\ last.outcome.what =
               <<IF last.by = "type" THEN TypeMsg ELSE NameMsg, last.key>>
        /\ TypeMsg # NameMsg

C8_Witness ==
    /\ last.by = "type" /\ Failed
    /\ last.outcome.kind = "InvalidParameter"
    /\ last.outcome.what[1] = TypeMsg
    /\ \E n \in Names : n \notin DOMAIN heap[last.inst]._byName
    /\ Len(log) >= 1

\* C9: a step changes the maps only if it is one of the two insertions of
\* registerFormatter (or the construction of the registry), so every lookup
\* leaves them unchanged; and every association present in a map before a
\* step is present with the same value after it.
C9_FrameAppendOnly ==
    [][/\ Len(heap') >= Len(heap)
       /\ \A r \in 1..Len(heap) :
             /\ \A n \in DOMAIN heap[r]._byName :
                   /\ n \in DOMAIN heap'[r]._byName
                   /\ heap'[r]._byName[n] = heap[r]._byName[n]
             /\ \A ty \in DOMAIN heap[r]._nameForType :
                   /\ ty \in DOMAIN heap'[r]._nameForType
                   /\ heap'[r]._nameForType[ty] = heap[r]._nameForType[ty]
       /\ heap' # heap =>
             \/ log' # log
             \/ \E t \in Threads : pc[t] = "registering" /\ pc'[t] = "idle"
             \/ Len(heap') = Len(heap) + 1
       /\ (last' # last /\ last'.by # "none") => heap' = heap]_vars

C9_Witness ==
    /\ Failed
    /\ Len(log) >= 2
    /\ Cardinality(DOMAIN heap[registry]._byName) >= 2

\* C10: after a type identity was registered under one name and later under
\* a different name, _nameForType still maps it to the first name: lookup by
\* that type identity invokes the factory held for the first name with the
\* sub-tree keyed by the first name, and the second name's factory is
\* reached by lookup by name.
C10_TypeNotRepointed ==
    \A i \in 1..Len(log) : \A j \in 1..Len(log) :
        (i < j /\ IsFirstOfType(i) /\ log[j].type = log[i].type
           /\ log[j].name # log[i].name /\ (j < Len(log) \/ ~Registering)) =>
            /\ \A r \in 1..Len(heap) :
                  heap[r]._nameForType[log[i].type] = log[i].name
            /\ ProbesTypeOf(i) =>
                  /\ Succeeded
                  /\ last.outcome.factory = log[FirstByName(log[i].name)].factory
                  /\ last.outcome.formatterPolicy = SubTreeFor(log[i].name)
            /\ (ProbesNameOf(j) /\ IsFirstOfName(j)) =>
                  /\ Succeeded
                  /\ last.outcome.factory = log[j].factory

C10_Witness ==
    /\ Len(log) >= 2
    /\ log[1].type = log[2].type /\ log[1].name # log[2].name
    /\ log[1].factory # log[2].factory
    /\ ProbesTypeOf(1) /\ Succeeded
    /\ last.outcome.factory = log[1].factory
    /\ last.outcome.formatterPolicy.key = log[1].name

====
